---- MODULE Spec2Model ----
(***************************************************************************)
(* Model of the live duplex audio session of ECHO.AI_OS:                   *)
(*   - GeminiService (src/services/geminiService.ts): the output clock     *)
(*     nextStartTime, the activeSources set, connectLive and the onmessage *)
(*     handler with its two awaits (tool handler, audio decode), the       *)
(*     returned stop() and stopAudio();                                    *)
(*   - App.toggleVoice (src/App.tsx) and the callbacks it passes.          *)
(* Time is counted in ticks of the output AudioContext clock; a buffer of  *)
(* duration d played at rate r lasts d \div r ticks.                       *)
(***************************************************************************)
EXTENDS Integers, Sequences, FiniteSets, TLC

\* ---------------------------------------------------------------- bounds
\* output clock ticks, inbound messages of the scheduling specification
SchedTime == 2
SchedMsgs == 2
SchedStops == 1
\* inbound messages of the tool-call, transcript and lifecycle specifications
ToolMsgBound == 2
TextMsgBound == 3
LifeMsgBound == 3
\* connectLive calls of the connection specification
ConnSessions == 2
\* capture frames per session, stop() calls per session when stop() may fail
LifeFrames == 1
FaultStops == 2
\* the same for the stopAudio specification
StopTime == 2
StopMsgs == 3
StopStops == 1
\* capture frames of the capture specification
CaptureFrames == 3
\* connectLive calls of the fault-report specification
ReportSessions == 2
\* inbound messages and output clock ticks of the playback-rate specification
\* inbound messages of the interrupted-signal specification
IntrMsgs == 4
RateMsgs == 3
\* inactivity timers started and page time in the inactivity monitor
IdleTimers == 3
IdleTime == 6
\* page time, inactivity timers and capture frames of the locked-down session
LockTime == 3
LockTimers == 2
LockFrames == 2
\* text submissions and the chat length up to which voice turns are added
ChatSubmits == 6
ChatVoiceLen == 9
\* set_volume calls and the chat length up to which voice turns are added
VolumeCalls == 2
VolumeVoiceLen == 3
\* clicks and key presses during the boot sequence
BootInputs == 2
\* inbound messages of the output-device specification
DeviceMsgs == 4
\* inbound messages and free clock ticks of the drain specification
DrainMsgs == 2
DrainTime == 1
\* inbound messages of the routing specification
RouteMsgs == 2
RateTime == 2

\* ---------------------------------------------------------------- constants
\* gain of a node returned by createGain(), in percent
DefaultGain == 100

\* IDLE_TIMEOUT in units of 100 s
IDLE_TIMEOUT == 3

\* length of INIT_MESSAGE
InitMessageLength == 28

\* ---------------------------------------------------------------- helpers
Max(a, b) == IF a >= b THEN a ELSE b

VARIABLES
  now,                  \* audioContext.currentTime of the output context
  audioContext,         \* this.audioContext / this.outputNode exist
  nextStartTime,        \* this.nextStartTime
  activeSources,        \* this.activeSources (indices into sources)
  sources,              \* every AudioBufferSourceNode ever started
  epoch,                \* number of stopAudio() calls so far
  currentAudioSettings, \* this.currentAudioSettings
  voiceActive,          \* App state voiceActive
  voiceError,           \* App state voiceError
  liveSessionRef,       \* App liveSessionRef.current (0 = null)
  sess,                 \* one record per connectLive call
  handlers,             \* onmessage invocations suspended at an await
  msgCount,             \* inbound messages delivered so far
  requests,             \* function calls received
  responses,            \* tool responses sent on the channel
  onErrors,             \* callbacks.onError calls
  expectedTurns,        \* what each turnComplete message should report
  turnLog,              \* callbacks.onTurnComplete calls
  boot,                 \* the BootSequence component
  gain,                 \* target of this.outputNode.gain in percent (0 = no node)
  app                   \* App state outside the voice session

gvars == <<now, audioContext, nextStartTime, activeSources, sources, epoch,
           currentAudioSettings, gain>>
appvars == <<voiceActive, voiceError, liveSessionRef>>
logvars == <<requests, responses, onErrors, expectedTurns, turnLog>>
svars == <<gvars, appvars, sess, handlers, msgCount, logvars>>
vars == <<now, audioContext, nextStartTime, activeSources, sources, epoch,
          currentAudioSettings, voiceActive, voiceError, liveSessionRef, sess,
          handlers, msgCount, requests, responses, onErrors, expectedTurns,
          turnLog, boot, gain, app>>

\* ---------------------------------------------------------------- messages
\* A function call of a toolCall message: name and whether args carries the
\* fields the handler reads.
FC(name, args) == [name |-> name, args |-> args]

Msg(fcs, parts, outT, inT, tc, intr) ==
  [fcs |-> fcs, parts |-> parts, outT |-> outT, inT |-> inT,
   turnComplete |-> tc, interrupted |-> intr]

NoText == << >>

Chunk == Msg(<< >>, <<2>>, NoText, NoText, FALSE, FALSE)

TwoChunks == Msg(<< >>, <<2, 4>>, NoText, NoText, FALSE, FALSE)

Fragment == Msg(<< >>, << >>, <<"a">>, NoText, FALSE, FALSE)

Interrupted == Msg(<< >>, << >>, NoText, NoText, FALSE, TRUE)

ToolThenChunk ==
  Msg(<<FC("set_volume", "valid")>>, <<2>>, NoText, NoText, FALSE, FALSE)

AudioMsgs == {Chunk, TwoChunks}

ToolMsgs ==
  { Msg(<<FC("set_volume", "valid")>>, << >>, NoText, NoText, FALSE, FALSE),
    Msg(<<FC("draw_detection", "missing")>>, << >>, NoText, NoText, FALSE, FALSE),
    Msg(<<FC("clear_chat", "valid"), FC("draw_detection", "valid")>>, << >>,
        NoText, NoText, FALSE, FALSE),
    Msg(<<FC("set_volume", "missing"), FC("other", "valid")>>, <<2>>,
        <<"a">>, NoText, TRUE, FALSE),
    ToolThenChunk }

TextMsgs ==
  { Msg(<< >>, << >>, <<"a">>, NoText, FALSE, FALSE),
    Msg(<< >>, << >>, NoText, <<"b">>, FALSE, FALSE),
    Msg(<< >>, << >>, <<"c">>, <<"d">>, FALSE, FALSE),
    Msg(<< >>, << >>, NoText, NoText, TRUE, FALSE),
    Msg(<< >>, << >>, <<"e">>, NoText, TRUE, FALSE),
    Msg(<< >>, <<2>>, <<"f">>, NoText, FALSE, FALSE) }

RouteMsgSet ==
  { Chunk, Fragment, Interrupted, ToolThenChunk,
    Msg(<<FC("clear_chat", "valid")>>, << >>, NoText, NoText, FALSE, FALSE),
    Msg(<<FC("set_volume", "missing")>>, <<2>>, <<"a">>, NoText, TRUE, FALSE),
    Msg(<< >>, <<2>>, <<"a">>, NoText, TRUE, FALSE) }

Speeds == {1, 2}

\* Increments of the neural sync progress (Math.random() * 8 + 2) and keys.
ProgressSteps == {2, 5, 9}

Keys == {"Escape", " ", "Enter"}

\* Levels passed to set_volume, in tenths of a percent, and detection labels.
Levels == {-50, 0, 296, 333, 335, 1000, 1500}

Labels == {"cup", "door"}

\* Volume settings in percent.
Volumes == {80, 30}

\* Messages of channel error events ("" = none) and codes of close events
\* (0 = none).
ErrorTexts == {"", "socket hang up"}

CloseCodes == {0, 1011}

\* ---------------------------------------------------------------- Init
\* App state outside the voice session (App.tsx lines 186-211): clock is the
\* page's time in units of 100 s, pending the inactivity timeouts not yet fired
\* or cleared, timerRef inactivityTimerRef.current (0 = null), lastEvent the time
\* of the last activity event (-1 = none yet), messages the roles of the chat
\* messages, stored the history in local storage, streams the chat streams being
\* read, audioSettings.volume in tenths of a percent, reply the text returned by
\* the last set_volume call.
AppInit ==
  [authenticated |-> FALSE, clock |-> 0, pending |-> {}, timerRef |-> 0, nextId |-> 1,
   lastEvent |-> -1, lockdowns |-> 0, messages |-> << >>, stored |-> << >>,
   isProcessing |-> FALSE, streams |-> 0, submits |-> 0,
   audioSettings |-> [volume |-> 800, speed |-> 1], detections |-> {},
   reply |-> "", level |-> 0, toolCalls |-> 0]

\* BootSequence after its first render and effects (part_001 lines 36-82):
\* phase INIT with the typewriter interval running and the keydown listener
\* installed. timers holds the pending setTimeout callbacks, completions counts
\* the onComplete calls, inputs the clicks and key presses received.
BootInit ==
  [mounted |-> TRUE, phase |-> "INIT", i |-> 0, typing |-> TRUE, progress |-> 0,
   syncing |-> FALSE, skipRef |-> FALSE, isExiting |-> FALSE, timers |-> {},
   completions |-> 0, inputs |-> 0]

NewSession ==
  [mic |-> "pending", inputCtx |-> "running", chan |-> "none", wired |-> FALSE,
   returned |-> "pending", promise |-> "none", waiting |-> << >>,
   sent |-> << >>, failed |-> {}, deferred |-> {}, errMsg |-> "",
   closeCode |-> 0, connects |-> 0, inbox |-> << >>, routes |-> {}, curIn |-> << >>, curOut |-> << >>,
   recvIn |-> << >>, recvOut |-> << >>, recvParts |-> 0,
   trackStops |-> 0, ctxCloses |-> 0, stopCalls |-> 0, frames |-> 0,
   closedByRemote |-> FALSE, msgAfterStop |-> FALSE, sendAfterStop |-> FALSE,
   stopActive |-> 0, stopInFlight |-> 0]

Init ==
  /\ now = 0
  /\ audioContext = FALSE
  /\ nextStartTime = 0
  /\ activeSources = {}
  /\ sources = << >>
  /\ epoch = 0
  /\ currentAudioSettings = [volume |-> 80, speed |-> 1]
  /\ voiceActive = FALSE
  /\ voiceError = "null"
  /\ liveSessionRef = 0
  /\ sess = << >>
  /\ handlers = {}
  /\ msgCount = 0
  /\ requests = << >>
  /\ responses = << >>
  /\ onErrors = << >>
  /\ expectedTurns = << >>
  /\ turnLog = << >>
  /\ boot = BootInit
  /\ gain = 0
  /\ app = AppInit


\* ---------------------------------------------------------------- App callbacks
\* onToolCall passed by toggleVoice: the text it returns, or THROW when reading
\* a field of the missing args raises.
OnToolCall(fc) ==
  IF fc.name = "clear_chat" THEN "History purged."
  ELSE IF fc.name = "set_volume"
    THEN IF fc.args = "missing" THEN "THROW" ELSE "Volume set."
  ELSE IF fc.name = "draw_detection"
    THEN IF fc.args = "missing" THEN "THROW" ELSE "Target tracked."
  ELSE "Tool executed."

\* onError passed by toggleVoice: setVoiceActive(false); setVoiceError(err.message).
OnError(s, err) ==
  /\ voiceActive' = FALSE
  /\ voiceError' = err
  /\ onErrors' = Append(onErrors, [sid |-> s, err |-> err])

\* ---------------------------------------------------------------- scheduler
\* A stopAudio() that calls stop() on every source ever started.
StoppedSources_All(srcs, act, failing) ==
  [i \in DOMAIN srcs |->
     [srcs[i] EXCEPT !.stopTried = TRUE,
                     !.state = IF i \notin failing /\ @ = "playing"
                                 THEN "stopped" ELSE @]]

\* stopAudio(): every active source is stopped inside its own try/catch (a
\* source whose stop() throws keeps playing), then the set is cleared.
StoppedSources(srcs, act, failing) ==
  [i \in DOMAIN srcs |->
     IF i \in act
       THEN [srcs[i] EXCEPT !.stopTried = TRUE,
                            !.state = IF i \notin failing /\ @ = "playing"
                                        THEN "stopped" ELSE @]
       ELSE srcs[i]]

\* A stopAudio() that forgets to reset the clock.
ClockAfterStopAudio_Kept == nextStartTime

\* The value stopAudio() leaves in nextStartTime.
ClockAfterStopAudio == 0

\* stopAudio() (lines 205-209) on the sources srcs0 and the active set act0.
StopAudio(srcs0, act0, failing) ==
  /\ sources' = StoppedSources(srcs0, act0, failing)
  /\ activeSources' = {}
  /\ nextStartTime' = ClockAfterStopAudio
  /\ epoch' = epoch + 1

\* The time at which the output device really starts a source: start(when) with
\* when in the past starts at once.
PlayStart(src) == Max(src.when, src.startedAt)

PlayEnd(src) == PlayStart(src) + (src.dur \div src.rate)

\* A schedule that starts every chunk at the current time.
ClockAtSchedule_Now(nst, t) == t

\* The start time computed before the decode await (line 144).
ClockAtSchedule(nst, t) == Max(nst, t)

\* The time passed to source.start (line 151).
StartArg(nst) == nst

\* A clock advance that ignores the playback rate.
ClockAdvance_IgnoresRate(nst, dur, speed) == nst + dur

\* The clock advance after start (line 152).
ClockAdvance(nst, dur, speed) == nst + (dur \div speed)

\* ---------------------------------------------------------------- onmessage
\* The components a message is meant for, by the payloads it carries.
KindsOf(m) ==
  (IF m.fcs # << >> THEN {"dispatcher"} ELSE {})
  \cup (IF m.parts # << >> \/ m.interrupted THEN {"scheduler"} ELSE {})
  \cup (IF m.outT # NoText \/ m.inT # NoText \/ m.turnComplete
          THEN {"aggregator"} ELSE {})

\* The components that lines 157-172 hand message h.m to: the transcript
\* branches and the turn completion, the interrupted branch.
RoutesAfterParts(h) ==
  (IF h.m.outT # NoText \/ h.m.inT # NoText \/ h.m.turnComplete
     THEN {<<h.mid, "aggregator">>} ELSE {})
  \cup (IF h.m.interrupted THEN {<<h.mid, "scheduler">>} ELSE {})

\* An onmessage whose interrupted branch also empties the transcript buffers.
AfterParts_DropsTranscripts(h, nst0, act0, srcs0, sess0, hs0) ==
  LET s == h.sid
      m == h.m
      curOut1 == IF m.outT # NoText THEN sess0[s].curOut \o m.outT ELSE sess0[s].curOut
      curIn1 == IF m.outT = NoText /\ m.inT # NoText
                  THEN sess0[s].curIn \o m.inT ELSE sess0[s].curIn
      drop == m.turnComplete \/ m.interrupted
  IN /\ turnLog' = IF m.turnComplete
                     THEN Append(turnLog, [sid |-> s, input |-> curIn1, output |-> curOut1])
                     ELSE turnLog
     /\ sess' = [sess0 EXCEPT ![s].curOut = IF drop THEN << >> ELSE curOut1,
                              ![s].curIn = IF drop THEN << >> ELSE curIn1,
                              ![s].routes = @ \cup RoutesAfterParts(h)]
     /\ IF m.interrupted
          THEN StopAudio(srcs0, act0, {})
          ELSE /\ sources' = srcs0
               /\ activeSources' = act0
               /\ nextStartTime' = nst0
               /\ epoch' = epoch
     /\ handlers' = hs0

\* The rest of onmessage after the parts loop (lines 157-172); nst0, act0, srcs0,
\* sess0, hs0 are the values left by the part of the handler that ran before.
AfterParts(h, nst0, act0, srcs0, sess0, hs0) ==
  LET s == h.sid
      m == h.m
      curOut1 == IF m.outT # NoText THEN sess0[s].curOut \o m.outT ELSE sess0[s].curOut
      curIn1 == IF m.outT = NoText /\ m.inT # NoText
                  THEN sess0[s].curIn \o m.inT ELSE sess0[s].curIn
  IN /\ turnLog' = IF m.turnComplete
                     THEN Append(turnLog, [sid |-> s, input |-> curIn1, output |-> curOut1])
                     ELSE turnLog
     /\ sess' = [sess0 EXCEPT ![s].curOut = IF m.turnComplete THEN << >> ELSE curOut1,
                              ![s].curIn = IF m.turnComplete THEN << >> ELSE curIn1,
                              ![s].routes = @ \cup RoutesAfterParts(h)]
     /\ IF m.interrupted
          THEN StopAudio(srcs0, act0, {})
          ELSE /\ sources' = srcs0
               /\ activeSources' = act0
               /\ nextStartTime' = nst0
               /\ epoch' = epoch
     /\ handlers' = hs0

\* An onmessage that handles the audio parts only of a message without
\* function calls.
ContinueParts_ElseIf(h, j, nst0, act0, srcs0, sess0, hs0) ==
  IF j <= Len(h.m.parts) /\ audioContext /\ h.m.fcs = << >>
    THEN /\ nextStartTime' = ClockAtSchedule(nst0, now)
         /\ activeSources' = act0
         /\ sources' = srcs0
         /\ sess' = [sess0 EXCEPT ![h.sid].routes = @ \cup {<<h.mid, "scheduler">>}]
         /\ handlers' = hs0 \cup {[h EXCEPT !.pc = "decode", !.idx = j]}
         /\ UNCHANGED <<epoch, turnLog>>
    ELSE AfterParts(h, nst0, act0, srcs0, sess0, hs0)

\* The parts loop from part j on (lines 141-145): up to the decode await.
ContinueParts(h, j, nst0, act0, srcs0, sess0, hs0) ==
  IF j <= Len(h.m.parts) /\ audioContext
    THEN /\ nextStartTime' = ClockAtSchedule(nst0, now)
         /\ activeSources' = act0
         /\ sources' = srcs0
         /\ sess' = [sess0 EXCEPT ![h.sid].routes = @ \cup {<<h.mid, "scheduler">>}]
         /\ handlers' = hs0 \cup {[h EXCEPT !.pc = "decode", !.idx = j]}
         /\ UNCHANGED <<epoch, turnLog>>
    ELSE AfterParts(h, nst0, act0, srcs0, sess0, hs0)

\* The function-call loop from call i on (lines 134-136): up to the handler await.
ContinueTools(h, i, sess0, hs0) ==
  IF i <= Len(h.m.fcs)
    THEN /\ handlers' = hs0 \cup {[h EXCEPT !.pc = "tool", !.idx = i,
                                             !.res = OnToolCall(h.m.fcs[i])]}
         /\ sess' = [sess0 EXCEPT ![h.sid].routes = @ \cup {<<h.mid, "dispatcher">>}]
         /\ UNCHANGED <<nextStartTime, activeSources, sources, epoch, turnLog>>
    ELSE ContinueParts(h, 1, nextStartTime, activeSources, sources, sess0, hs0)

NewRequests(s, m) ==
  [i \in 1..Len(m.fcs) |->
     [id |-> Len(requests) + i, name |-> m.fcs[i].name, sid |-> s, mid |-> msgCount + 1]]

\* An inbound message is delivered to onmessage (line 133).
OnMessage(s, m, maxM) ==
  /\ s \in DOMAIN sess
  /\ sess[s].chan = "open"
  /\ msgCount < maxM
  /\ msgCount' = msgCount + 1
  /\ requests' = requests \o NewRequests(s, m)
  /\ expectedTurns' = IF m.turnComplete
                        THEN Append(expectedTurns,
                               [sid |-> s, input |-> sess[s].recvIn \o m.inT,
                                output |-> sess[s].recvOut \o m.outT])
                        ELSE expectedTurns
  /\ LET h == [mid |-> msgCount + 1, sid |-> s, m |-> m, pc |-> "start", idx |-> 0,
               base |-> Len(requests), res |-> "none"]
         sess0 == [sess EXCEPT
                     ![s].msgAfterStop = @ \/ sess[s].stopCalls > 0,
                     ![s].recvParts = @ + Len(m.parts),
                     ![s].inbox = Append(@, [mid |-> msgCount + 1, kinds |-> KindsOf(m),
                                             interrupted |-> m.interrupted,
                                             throws |-> \E i \in DOMAIN m.fcs :
                                                          OnToolCall(m.fcs[i]) = "THROW"]),
                     ![s].recvIn = IF m.turnComplete THEN << >> ELSE @ \o m.inT,
                     ![s].recvOut = IF m.turnComplete THEN << >> ELSE @ \o m.outT]
     IN ContinueTools(h, 1, sess0, handlers)
  /\ UNCHANGED <<boot, app, gain, now, audioContext, currentAudioSettings, appvars, responses, onErrors>>

\* The response sent for call i of handler h (line 137); a send on a channel
\* that is no longer open is discarded.
SendToolResponse(h) ==
  IF sess[h.sid].chan = "open"
    THEN Append(responses, [id |-> h.base + h.idx, name |-> h.m.fcs[h.idx].name,
                            sid |-> h.sid])
    ELSE responses

\* callbacks.onToolCall settles and onmessage resumes (lines 136-138).
ToolReturn(h) ==
  /\ h \in handlers
  /\ h.pc = "tool"
  /\ IF h.res = "THROW"
       THEN /\ handlers' = handlers \ {h}
            /\ UNCHANGED <<responses, nextStartTime, activeSources, sources, epoch,
                           sess, turnLog>>
       ELSE /\ responses' = SendToolResponse(h)
            /\ ContinueTools(h, h.idx + 1, sess, handlers \ {h})
  /\ UNCHANGED <<boot, app, gain, now, audioContext, currentAudioSettings, appvars, msgCount,
                 requests, onErrors, expectedTurns>>

\* decodeAudioData settles and onmessage resumes (lines 146-153).
DecodeDone(h) ==
  /\ h \in handlers
  /\ h.pc = "decode"
  /\ LET dur == h.m.parts[h.idx]
         speed == currentAudioSettings.speed
         src == [sid |-> h.sid, dur |-> dur, rate |-> speed,
                 clock |-> nextStartTime, when |-> StartArg(nextStartTime),
                 startedAt |-> now,
                 clockAfter |-> ClockAdvance(nextStartTime, dur, speed),
                 epoch |-> epoch, state |-> "playing", stopTried |-> FALSE]
     IN ContinueParts(h, h.idx + 1, ClockAdvance(nextStartTime, dur, speed),
                      activeSources \cup {Len(sources) + 1},
                      Append(sources, src), sess, handlers \ {h})
  /\ UNCHANGED <<boot, app, gain, now, audioContext, currentAudioSettings, appvars, msgCount,
                 requests, responses, onErrors, expectedTurns>>

\* The output device is lost while a chunk is being handled: decodeAudioData
\* or one of the source calls throws (lines 145-151 are not guarded) and the
\* onmessage invocation rejects.
DecodeFails(h) ==
  /\ h \in handlers
  /\ h.pc = "decode"
  /\ handlers' = handlers \ {h}
  /\ UNCHANGED <<boot, app, gvars, appvars, sess, msgCount, logvars>>

\* ---------------------------------------------------------------- output clock
\* The output context's clock advances.
Tick(maxT) ==
  /\ now < maxT
  /\ now' = now + 1
  /\ UNCHANGED <<boot, app, gain, audioContext, nextStartTime, activeSources, sources, epoch,
                 currentAudioSettings, appvars, sess, handlers, msgCount, logvars>>

\* The output context's clock advances up to maxT, and beyond it for as long as
\* an active source has not played to its end.
ClockRuns(maxT) ==
  /\ now < maxT \/ \E i \in activeSources : PlayEnd(sources[i]) > now
  /\ now' = now + 1
  /\ UNCHANGED <<boot, app, gain, audioContext, nextStartTime, activeSources, sources, epoch,
                 currentAudioSettings, appvars, sess, handlers, msgCount, logvars>>

\* An 'ended' listener that leaves the source in the set.
ActiveAfterEnded_Kept(act, i) == act

\* The 'ended' listener of source i (line 150).
ActiveAfterEnded(act, i) == act \ {i}

\* The 'ended' event of a source that has played to its end (line 150).
Ended(i) ==
  /\ i \in DOMAIN sources
  /\ sources[i].state = "playing"
  /\ now >= PlayEnd(sources[i])
  /\ sources' = [sources EXCEPT ![i].state = "ended"]
  /\ activeSources' = ActiveAfterEnded(activeSources, i)
  /\ UNCHANGED <<boot, app, gain, now, audioContext, nextStartTime, epoch, currentAudioSettings,
                 appvars, sess, handlers, msgCount, logvars>>

\* setAudioSettings (lines 57-62), reached from the App's settings effect.
SetAudioSettings(vol, sp) ==
  /\ <<vol, sp>> # <<currentAudioSettings.volume, currentAudioSettings.speed>>
  /\ currentAudioSettings' = [volume |-> vol, speed |-> sp]
  /\ gain' = IF audioContext THEN vol ELSE gain
  /\ UNCHANGED <<boot, app, now, audioContext, nextStartTime, activeSources, sources, epoch,
                 appvars, sess, handlers, msgCount, logvars>>

\* ---------------------------------------------------------------- session
InFlightTools(s) == Cardinality({h \in handlers : h.sid = s /\ h.pc = "tool"})

ActiveOf(s) == {i \in activeSources : sources[i].sid = s}

\* The stop() returned by connectLive (lines 197-201). A throwing track.stop()
\* leaves the rest of stop() unexecuted; a rejected inputCtx.close() is caught.
StopSession(s, trackFail, closeFail) ==
  IF trackFail
    THEN [sess EXCEPT ![s].stopCalls = @ + 1,
                      ![s].stopActive = Cardinality(ActiveOf(s)),
                      ![s].stopInFlight = InFlightTools(s)]
    ELSE [sess EXCEPT ![s].stopCalls = @ + 1,
                      ![s].stopActive = Cardinality(ActiveOf(s)),
                      ![s].stopInFlight = InFlightTools(s),
                      ![s].mic = "stopped",
                      ![s].trackStops = @ + 1,
                      ![s].ctxCloses = @ + 1,
                      ![s].inputCtx = IF closeFail THEN @ ELSE "closed"]

\* toggleVoice while voiceActive (App.tsx lines 409-414).
ToggleVoiceOff(trackFail, closeFail, srcFail) ==
  /\ app.authenticated
  /\ voiceActive
  /\ IF liveSessionRef # 0
       THEN /\ sess' = StopSession(liveSessionRef, trackFail, closeFail)
            /\ IF trackFail
                 THEN UNCHANGED <<sources, activeSources, nextStartTime, epoch,
                                  liveSessionRef, voiceActive, app>>
                 ELSE /\ StopAudio(sources, activeSources, srcFail)
                      /\ liveSessionRef' = 0
                      /\ voiceActive' = FALSE
                      /\ app' = [app EXCEPT !.detections = {}]
       ELSE /\ liveSessionRef' = 0
            /\ voiceActive' = FALSE
            /\ app' = [app EXCEPT !.detections = {}]
            /\ UNCHANGED <<sess, sources, activeSources, nextStartTime, epoch>>
  /\ UNCHANGED <<boot, gain, now, audioContext, currentAudioSettings, voiceError, handlers,
                 msgCount, logvars>>

\* toggleVoice while not voiceActive (App.tsx lines 416-417) up to the await of
\* getUserMedia in connectLive (lines 106-111): both audio contexts exist.
ToggleVoiceOn(maxS) ==
  /\ app.authenticated
  /\ ~voiceActive
  /\ Len(sess) < maxS
  /\ voiceActive' = TRUE
  /\ audioContext' = TRUE
  /\ gain' = IF audioContext THEN gain ELSE DefaultGain
  /\ sess' = Append(sess, NewSession)
  /\ UNCHANGED <<boot, app, now, nextStartTime, activeSources, sources, epoch,
                 currentAudioSettings, voiceError, liveSessionRef, handlers,
                 msgCount, logvars>>

\* getUserMedia resolves: connectLive opens the channel and returns the handle
\* (lines 117-202); toggleVoice stores it (App.tsx lines 468-473).
MicGranted(s) ==
  /\ s \in DOMAIN sess
  /\ sess[s].mic = "pending"
  /\ sess' = [sess EXCEPT ![s].mic = "live", ![s].chan = "connecting",
                          ![s].promise = "pending", ![s].connects = @ + 1,
                          ![s].returned = "handle"]
  /\ liveSessionRef' = s
  /\ UNCHANGED <<boot, app, gvars, voiceActive, voiceError, handlers, msgCount, logvars>>

\* A connectLive that reports the denial but goes on to open the channel.
MicDeniedSession_Connects(rec) ==
  [rec EXCEPT !.mic = "denied", !.returned = "handle", !.chan = "connecting"]

\* What connectLive does when getUserMedia rejects (lines 112-115).
MicDeniedSession(rec) == [rec EXCEPT !.mic = "denied", !.returned = "null"]

\* getUserMedia rejects; toggleVoice gets null (App.tsx lines 474-476).
MicDenied(s) ==
  /\ s \in DOMAIN sess
  /\ sess[s].mic = "pending"
  /\ sess' = [sess EXCEPT ![s] = MicDeniedSession(@)]
  /\ OnError(s, "MIC_ACCESS_DENIED")
  /\ UNCHANGED <<boot, app, gvars, liveSessionRef, handlers, msgCount, requests, responses,
                 expectedTurns, turnLog>>

\* The channel handshake completes: onopen wires the capture path (lines 123-132).
ChannelOpen(s) ==
  /\ s \in DOMAIN sess
  /\ sess[s].chan = "connecting"
  /\ sess' = [sess EXCEPT ![s].chan = "open", ![s].wired = TRUE]
  /\ UNCHANGED <<boot, app, gvars, appvars, handlers, msgCount, logvars>>

\* An onerror / onclose that connects again.
ConnectsAfterFault_Retry(n) == n + 1

\* The ai.live.connect calls made for a session once onerror or onclose has
\* run, n being the calls made before: neither handler connects (lines 174-175).
ConnectsAfterFault(n) == n

\* The message of the Error built by onerror (line 174); "" is an event
\* without a message.
ErrorMessage(msg) == IF msg = "" THEN "UPLINK_PROTOCOL_ERROR" ELSE msg

\* The channel reports an error whose message is one of msgs: onerror (line 174).
ChannelError(s, msgs) ==
  /\ s \in DOMAIN sess
  /\ sess[s].chan \in {"connecting", "open"}
  /\ \E msg \in msgs :
       /\ sess' = [sess EXCEPT ![s].chan = "error", ![s].errMsg = msg,
                               ![s].connects = ConnectsAfterFault(@)]
       /\ OnError(s, ErrorMessage(msg))
  /\ UNCHANGED <<boot, app, gvars, liveSessionRef, handlers, msgCount, requests, responses,
                 expectedTurns, turnLog>>

\* An onclose that reports every closure as abnormal.
CloseMessage_Abnormal(code) == "SESSION_CLOSED_1006"

\* The message of the Error built by onclose (line 175); code 0 is an event
\* without a close code.
CloseMessage(code) == "SESSION_CLOSED_" \o ToString(IF code = 0 THEN 1006 ELSE code)

\* The channel is closed by the remote side or the network with one of the
\* close codes: onclose (line 175).
ChannelClose(s, codes) ==
  /\ s \in DOMAIN sess
  /\ sess[s].chan \in {"connecting", "open", "error"}
  /\ \E code \in codes :
       /\ sess' = [sess EXCEPT ![s].chan = "closed", ![s].closedByRemote = TRUE,
                               ![s].closeCode = code,
                               ![s].connects = ConnectsAfterFault(@)]
       /\ OnError(s, CloseMessage(code))
  /\ UNCHANGED <<boot, app, gvars, liveSessionRef, handlers, msgCount, requests, responses,
                 expectedTurns, turnLog>>

\* A resolution that runs the callbacks up to the first failing send only.
FlushWaiting_Blocked(w) ==
  LET firstFail == IF \E k \in DOMAIN w : w[k].fail
                     THEN CHOOSE k \in DOMAIN w :
                            w[k].fail /\ \A j \in 1..(k - 1) : ~w[j].fail
                     ELSE Len(w) + 1
  IN [k \in 1..(firstFail - 1) |-> w[k].id]

\* The frames put on the channel when sessionPromise resolves: the callbacks
\* registered by then() at line 128 run in registration order, each in its own
\* promise chain; a send that throws is swallowed by the catch of its chain.
RECURSIVE FlushWaiting(_)
FlushWaiting(w) ==
  IF w = << >> THEN << >>
  ELSE IF w[1].fail THEN FlushWaiting(Tail(w))
  ELSE <<w[1].id>> \o FlushWaiting(Tail(w))

\* ai.live.connect's promise resolves with the session after the handshake
\* (line 120): the sends registered on it meanwhile are made.
ConnectResolved(s) ==
  /\ s \in DOMAIN sess
  /\ sess[s].chan = "open"
  /\ sess[s].promise = "pending"
  /\ sess' = [sess EXCEPT ![s].promise = "resolved",
                          ![s].sent = @ \o FlushWaiting(sess[s].waiting),
                          ![s].waiting = << >>]
  /\ UNCHANGED <<boot, app, gvars, appvars, handlers, msgCount, logvars>>

\* onaudioprocess fires (lines 126-129): the send of the frame is registered on
\* sessionPromise; on a resolved promise it runs before the next capture
\* callback, on a pending one it waits for the resolution. fail: the send of
\* this frame throws.
CaptureFrame(s, maxF) ==
  /\ s \in DOMAIN sess
  /\ sess[s].wired
  /\ sess[s].inputCtx = "running"
  /\ sess[s].chan = "open"
  /\ sess[s].frames < maxF
  /\ \E fail \in BOOLEAN :
       LET id == sess[s].frames + 1
       IN sess' = [sess EXCEPT
                     ![s].frames = id,
                     ![s].failed = IF fail THEN @ \cup {id} ELSE @,
                     ![s].deferred = IF sess[s].promise = "pending"
                                       THEN @ \cup {id} ELSE @,
                     ![s].sendAfterStop = @ \/ sess[s].stopCalls > 0,
                     ![s].sent = IF sess[s].promise = "resolved" /\ ~fail
                                   THEN Append(@, id) ELSE @,
                     ![s].waiting = IF sess[s].promise = "pending"
                                      THEN Append(@, [id |-> id, fail |-> fail])
                                      ELSE @]
  /\ UNCHANGED <<boot, app, gvars, appvars, handlers, msgCount, logvars>>

\* ---------------------------------------------------------------- App
\* window.clearTimeout(inactivityTimerRef.current) (App.tsx lines 217, 233).
ClearTimer(a) == [a EXCEPT !.pending = {tm \in @ : tm.id # a.timerRef}]

\* A resetTimer that starts a timer without clearing the pending one.
ResetTimer_KeepsPending(a) ==
  IF a.authenticated
    THEN [a EXCEPT !.pending = @ \cup {[id |-> a.nextId, due |-> a.clock + IDLE_TIMEOUT]},
                   !.timerRef = a.nextId,
                   !.nextId = @ + 1]
    ELSE ClearTimer(a)

\* resetTimer (App.tsx lines 216-224).
ResetTimer(a) ==
  IF a.authenticated
    THEN [ClearTimer(a) EXCEPT
            !.pending = @ \cup {[id |-> a.nextId, due |-> a.clock + IDLE_TIMEOUT]},
            !.timerRef = a.nextId,
            !.nextId = @ + 1]
    ELSE ClearTimer(a)

\* BootScreen calls onAuthenticated (App.tsx lines 480-482): the monitor effect
\* is cleaned up and runs again (lines 214-237).
Authenticate ==
  /\ ~app.authenticated
  /\ app' = ResetTimer(ClearTimer([app EXCEPT !.authenticated = TRUE]))
  /\ UNCHANGED <<boot, svars>>

\* A mousedown, mousemove, keydown, scroll or touchstart event: resetTimer
\* (App.tsx lines 226-227).
Activity(maxEv) ==
  /\ app.nextId <= maxEv
  /\ app' = ResetTimer([app EXCEPT !.lastEvent = app.clock])
  /\ UNCHANGED <<boot, svars>>

\* Time passes on the page.
AppTick(maxT) ==
  /\ app.clock < maxT
  /\ app' = [app EXCEPT !.clock = @ + 1]
  /\ UNCHANGED <<boot, svars>>

\* An inactivity timeout fires (App.tsx lines 219-222); the monitor effect is
\* cleaned up and runs again with authenticated false.
Lockdown ==
  /\ \E tm \in app.pending :
       /\ tm.due <= app.clock
       /\ app' = ResetTimer(ClearTimer([app EXCEPT !.pending = @ \ {tm},
                                                    !.authenticated = FALSE,
                                                    !.lockdowns = @ + 1]))
  /\ UNCHANGED <<boot, svars>>

\* Array.prototype.slice(-n).
LastN(seq, n) ==
  IF Len(seq) <= n THEN seq ELSE SubSeq(seq, Len(seq) - n + 1, Len(seq))

\* setMessages followed by the save effect (App.tsx lines 261-265).
SetMessages(a, msgs) ==
  [a EXCEPT !.messages = msgs,
            !.stored = IF Len(msgs) > 0 THEN LastN(msgs, 10) ELSE @]

\* handleSubmitInput up to the first read of the stream (App.tsx lines
\* 371-387): stopAudio, the user message and the empty assistant message.
HandleSubmitInput(maxSub) ==
  /\ app.authenticated
  /\ ~app.isProcessing
  /\ app.submits < maxSub
  /\ StopAudio(sources, activeSources, {})
  /\ LET a1 == SetMessages(app, Append(LastN(app.messages, 9), "user"))
         a2 == SetMessages(a1, Append(a1.messages, "assistant"))
     IN app' = [a2 EXCEPT !.isProcessing = TRUE, !.streams = @ + 1, !.submits = @ + 1]
  /\ UNCHANGED <<boot, now, audioContext, gain, currentAudioSettings, appvars, sess,
                 handlers, msgCount, logvars>>

\* The stream yields a chunk (App.tsx lines 389-392): the text is added to the
\* assistant message.
StreamChunk ==
  /\ app.streams > 0
  /\ app.isProcessing
  /\ app' = SetMessages([app EXCEPT !.isProcessing = FALSE], app.messages)
  /\ UNCHANGED <<boot, svars>>

\* The stream ends (App.tsx line 395).
StreamEnds ==
  /\ app.streams > 0
  /\ app' = [app EXCEPT !.streams = @ - 1, !.isProcessing = FALSE]
  /\ UNCHANGED <<boot, svars>>

\* The stream throws (App.tsx lines 393-395): an UPLINK_ERROR message is added.
StreamFails ==
  /\ app.streams > 0
  /\ app' = [SetMessages(app, Append(app.messages, "assistant")) EXCEPT
               !.streams = @ - 1, !.isProcessing = FALSE]
  /\ UNCHANGED <<boot, svars>>

\* onTurnComplete passed by toggleVoice (App.tsx lines 419-427).
VoiceTurn(maxMsgs) ==
  /\ Len(app.messages) < maxMsgs
  /\ app' = SetMessages(app, LastN(app.messages, 8) \o <<"user", "assistant">>)
  /\ UNCHANGED <<boot, svars>>

\* handlePurgeHistory (App.tsx lines 365-369).
PurgeHistory ==
  /\ app.messages # << >>
  /\ app' = [app EXCEPT !.messages = << >>, !.stored = << >>]
  /\ UNCHANGED <<boot, svars>>

\* A set_volume that does not limit the level from above.
SetVolumeLevel_NoUpperLimit(level) == Max(0, level)

\* Math.max(0, Math.min(100, level)) / 100 (App.tsx line 436), level and
\* result in tenths of a percent.
SetVolumeLevel(level) == Max(0, IF level <= 1000 THEN level ELSE 1000)

\* Math.round(level * 100) (App.tsx line 438) of a volume in tenths of a
\* percent; halves go up (binary floating point takes a few of them down).
RoundPercent(vol) == (vol + 5) \div 10

\* The text returned for set_volume (App.tsx line 438).
SetVolumeReply(vol) == "Volume set to " \o ToString(RoundPercent(vol)) \o "%."

\* onToolCall passed by toggleVoice, called with set_volume (App.tsx lines
\* 435-439).
SetVolumeTool(level, maxCalls) ==
  /\ app.toolCalls < maxCalls
  /\ app' = [app EXCEPT !.audioSettings.volume = SetVolumeLevel(level),
                        !.reply = SetVolumeReply(SetVolumeLevel(level)),
                        !.level = level,
                        !.toolCalls = @ + 1]
  /\ UNCHANGED <<boot, svars>>

\* onToolCall called with draw_detection for label (App.tsx lines 440-463).
DrawDetectionTool(label) ==
  /\ label \notin app.detections
  /\ app' = [app EXCEPT !.detections = @ \cup {label}]
  /\ UNCHANGED <<boot, svars>>

\* ---------------------------------------------------------------- boot sequence
Phases == <<"INIT", "DIAGNOSTICS", "NEURAL_SYNC", "CALIBRATION", "READY">>

\* Position of phase p in the order of the BootPhase type (part_001 line 15).
PhaseRank(p) == CHOOSE k \in DOMAIN Phases : Phases[k] = p

\* A boot sequence whose diagnostics go straight to the calibration.
PhaseAfter_SkipsNeuralSync(p) ==
  CASE p = "INIT" -> "DIAGNOSTICS"
    [] p = "DIAGNOSTICS" -> "CALIBRATION"
    [] p = "NEURAL_SYNC" -> "CALIBRATION"
    [] p = "CALIBRATION" -> "READY"

\* The phase set by the timer that the effect of phase p starts (part_001
\* lines 77, 99, 112, 124).
PhaseAfter(p) ==
  CASE p = "INIT" -> "DIAGNOSTICS"
    [] p = "DIAGNOSTICS" -> "NEURAL_SYNC"
    [] p = "NEURAL_SYNC" -> "CALIBRATION"
    [] p = "CALIBRATION" -> "READY"

PhaseTimerOf(p) == [kind |-> "phase", from |-> p]

ExitTimer == [kind |-> "exit", from |-> "READY"]

CompleteTimer == [kind |-> "complete", from |-> "READY"]

SkipTimer == [kind |-> "skip", from |-> "skip"]

\* The effect that runs when the component has rendered phase p (part_001
\* lines 83-140): the timers it starts and the interval of NEURAL_SYNC.
EnterPhase(b, p) ==
  [b EXCEPT !.phase = p,
            !.syncing = (p = "NEURAL_SYNC"),
            !.timers = @ \cup (IF p \in {"DIAGNOSTICS", "CALIBRATION"}
                                THEN {PhaseTimerOf(p)}
                              ELSE IF p = "READY" THEN {ExitTimer} ELSE {})]

\* The typewriter interval of phase INIT fires (part_001 lines 70-79).
TypeTick ==
  /\ boot.mounted
  /\ boot.typing
  /\ boot' = IF boot.i <= InitMessageLength
               THEN [boot EXCEPT !.i = @ + 1]
               ELSE [boot EXCEPT !.typing = FALSE,
                                 !.timers = @ \cup {PhaseTimerOf("INIT")}]
  /\ UNCHANGED <<app, svars>>

\* A timer started by the effect of phase p fires: setPhase (part_001 lines 77,
\* 99, 112, 124); on an unmounted component the update is dropped.
PhaseTimer(p) ==
  /\ PhaseTimerOf(p) \in boot.timers
  /\ LET b == [boot EXCEPT !.timers = @ \ {PhaseTimerOf(p)}]
     IN boot' = IF boot.mounted THEN EnterPhase(b, PhaseAfter(p)) ELSE b
  /\ UNCHANGED <<app, svars>>

\* The progress interval of phase NEURAL_SYNC fires with a random increment
\* (part_001 lines 106-114).
SyncTick(inc) ==
  /\ boot.mounted
  /\ boot.syncing
  /\ boot' = IF boot.progress + inc >= 100
               THEN [boot EXCEPT !.progress = 100, !.syncing = FALSE,
                                 !.timers = @ \cup {PhaseTimerOf("NEURAL_SYNC")}]
               ELSE [boot EXCEPT !.progress = @ + inc]
  /\ UNCHANGED <<app, svars>>

\* The 2000 ms timer of phase READY fires (part_001 lines 133-138).
ExitFires ==
  /\ ExitTimer \in boot.timers
  /\ boot' = [boot EXCEPT !.timers = (@ \ {ExitTimer}) \cup {CompleteTimer},
                          !.isExiting = @ \/ boot.mounted]
  /\ UNCHANGED <<app, svars>>

\* The inner 800 ms timer of phase READY fires: onComplete (part_001 lines
\* 135-138).
CompleteFires ==
  /\ CompleteTimer \in boot.timers
  /\ boot' = [boot EXCEPT !.timers = @ \ {CompleteTimer}, !.completions = @ + 1]
  /\ UNCHANGED <<app, svars>>

\* handleSkip (part_001 lines 48-53).
HandleSkip(b) ==
  IF b.skipRef THEN b
  ELSE [b EXCEPT !.skipRef = TRUE, !.isExiting = TRUE, !.timers = @ \cup {SkipTimer}]

\* A click on the boot screen (part_001 line 214).
Click(maxI) ==
  /\ boot.mounted
  /\ boot.inputs < maxI
  /\ boot' = HandleSkip([boot EXCEPT !.inputs = @ + 1])
  /\ UNCHANGED <<app, svars>>

\* A key press while the keydown listener is installed (part_001 lines 57-59).
KeyDown(key, maxI) ==
  /\ boot.mounted
  /\ boot.inputs < maxI
  /\ boot' = IF key \in {"Escape", " "}
               THEN HandleSkip([boot EXCEPT !.inputs = @ + 1])
               ELSE [boot EXCEPT !.inputs = @ + 1]
  /\ UNCHANGED <<app, svars>>

\* The 800 ms timer of handleSkip fires: onComplete (part_001 line 52).
SkipFires ==
  /\ SkipTimer \in boot.timers
  /\ boot' = [boot EXCEPT !.timers = @ \ {SkipTimer}, !.completions = @ + 1]
  /\ UNCHANGED <<app, svars>>

\* The parent stops rendering BootSequence after onComplete: the cleanups clear
\* the intervals and remove the keydown listener (part_001 lines 62, 81, 116);
\* pending timeouts are not cleared.
Unmount ==
  /\ boot.mounted
  /\ boot.completions > 0
  /\ boot' = [boot EXCEPT !.mounted = FALSE, !.typing = FALSE, !.syncing = FALSE]
  /\ UNCHANGED <<app, svars>>

\* ---------------------------------------------------------------- specifications
\* One live session receiving audio chunks and interrupted signals while the
\* output clock runs.
NextSched ==
  \/ Authenticate
  \/ ToggleVoiceOn(1)
  \/ ToggleVoiceOff(FALSE, FALSE, {})
  \/ MicGranted(1)
  \/ ChannelOpen(1)
  \/ \E m \in AudioMsgs \cup {Interrupted} : OnMessage(1, m, SchedMsgs)
  \/ \E h \in handlers : DecodeDone(h)
  \/ Tick(SchedTime)
  \/ \E i \in DOMAIN sources : Ended(i)
  \/ \E sp \in Speeds : SetAudioSettings(80, sp)
  \/ (epoch < SchedStops /\ HandleSubmitInput(SchedStops))
  \/ StreamEnds

SpecSched == Init /\ [][NextSched]_vars


\* One live session receiving audio chunks and interrupted signals, with text
\* submissions and a voice toggle calling stopAudio().
NextStop ==
  \/ Authenticate
  \/ ToggleVoiceOn(1)
  \/ ToggleVoiceOff(FALSE, FALSE, {})
  \/ MicGranted(1)
  \/ ChannelOpen(1)
  \/ \E m \in {Chunk, Interrupted} : OnMessage(1, m, StopMsgs)
  \/ \E h \in handlers : DecodeDone(h)
  \/ Tick(StopTime)
  \/ \E i \in DOMAIN sources : Ended(i)
  \/ (epoch < StopStops /\ HandleSubmitInput(StopStops))
  \/ StreamEnds

SpecStop == Init /\ [][NextStop]_vars


\* One live session receiving tool-call messages; the channel may close.
NextTools ==
  \/ Authenticate
  \/ ToggleVoiceOn(1)
  \/ MicGranted(1)
  \/ ChannelOpen(1)
  \/ ChannelClose(1, {1000})
  \/ \E m \in ToolMsgs : OnMessage(1, m, ToolMsgBound)
  \/ \E h \in handlers : ToolReturn(h)
  \/ \E h \in handlers : DecodeDone(h)

SpecTools == Init /\ [][NextTools]_vars

\* One live session receiving transcript fragments and turn completions.
NextText ==
  \/ Authenticate
  \/ ToggleVoiceOn(1)
  \/ MicGranted(1)
  \/ ChannelOpen(1)
  \/ \E m \in TextMsgs : OnMessage(1, m, TextMsgBound)
  \/ \E h \in handlers : DecodeDone(h)

SpecText == Init /\ [][NextText]_vars

\* One live session with audio and a tool call, stopped by the user or closed
\* by the remote side.
NextLife ==
  \/ Authenticate
  \/ ToggleVoiceOn(1)
  \/ ToggleVoiceOff(FALSE, FALSE, {})
  \/ MicGranted(1)
  \/ ChannelOpen(1)
  \/ ChannelError(1, {""})
  \/ ChannelClose(1, {1000})
  \/ ConnectResolved(1)
  \/ CaptureFrame(1, LifeFrames)
  \/ \E m \in {Chunk, ToolThenChunk} : OnMessage(1, m, LifeMsgBound)
  \/ \E h \in handlers : ToolReturn(h)
  \/ \E h \in handlers : DecodeDone(h)

SpecLife == Init /\ [][NextLife]_vars

\* The same session when the device calls made by stop() may fail.
NextFaults ==
  \/ Authenticate
  \/ ToggleVoiceOn(1)
  \/ \E tf \in BOOLEAN, cf \in BOOLEAN, sf \in SUBSET activeSources :
        /\ liveSessionRef # 0 => sess[liveSessionRef].stopCalls < FaultStops
        /\ ToggleVoiceOff(tf, cf, sf)
  \/ MicGranted(1)
  \/ ChannelOpen(1)
  \/ \E m \in {Chunk} : OnMessage(1, m, LifeMsgBound)
  \/ \E h \in handlers : DecodeDone(h)

SpecFaults == Init /\ [][NextFaults]_vars

\* Voice toggles, microphone prompts and channel events of several sessions.
NextConnect ==
  \/ Authenticate
  \/ ToggleVoiceOn(ConnSessions)
  \/ ToggleVoiceOff(FALSE, FALSE, {})
  \/ \E s \in 1..ConnSessions : MicGranted(s)
  \/ \E s \in 1..ConnSessions : MicDenied(s)
  \/ \E s \in 1..ConnSessions : ChannelOpen(s)
  \/ \E s \in 1..ConnSessions : ChannelError(s, {""})
  \/ \E s \in 1..ConnSessions : ChannelClose(s, {1000})

SpecConnect == Init /\ [][NextConnect]_vars

\* Voice toggles of connected sessions and channel faults with their messages
\* and close codes.
NextReport ==
  \/ Authenticate
  \/ ToggleVoiceOn(ReportSessions)
  \/ liveSessionRef # 0 /\ ToggleVoiceOff(FALSE, FALSE, {})
  \/ \E s \in 1..ReportSessions : MicGranted(s)
  \/ \E s \in 1..ReportSessions : ChannelOpen(s)
  \/ \E s \in 1..ReportSessions : ChannelError(s, ErrorTexts)
  \/ \E s \in 1..ReportSessions : ChannelClose(s, CloseCodes)

SpecReport == Init /\ [][NextReport]_vars

\* One live session receiving single chunks and interrupted signals while the
\* playback rate and the volume change.
NextRate ==
  \/ Authenticate
  \/ ToggleVoiceOn(1)
  \/ MicGranted(1)
  \/ ChannelOpen(1)
  \/ \E m \in {Chunk, Interrupted} : OnMessage(1, m, RateMsgs)
  \/ \E h \in handlers : DecodeDone(h)
  \/ Tick(RateTime)
  \/ \E i \in DOMAIN sources : Ended(i)
  \/ \E vol \in Volumes, sp \in Speeds : SetAudioSettings(vol, sp)

SpecRate == Init /\ [][NextRate]_vars

\* One live session receiving chunks, transcript fragments and interrupted
\* signals.
NextIntr ==
  \/ Authenticate
  \/ ToggleVoiceOn(1)
  \/ MicGranted(1)
  \/ ChannelOpen(1)
  \/ \E m \in {Chunk, Fragment, Interrupted} : OnMessage(1, m, IntrMsgs)
  \/ \E h \in handlers : DecodeDone(h)

SpecIntr == Init /\ [][NextIntr]_vars

\* One live session receiving messages with one payload kind and with several.
NextRoute ==
  \/ Authenticate
  \/ ToggleVoiceOn(1)
  \/ MicGranted(1)
  \/ ChannelOpen(1)
  \/ \E m \in RouteMsgSet : OnMessage(1, m, RouteMsgs)
  \/ \E h \in handlers : ToolReturn(h)
  \/ \E h \in handlers : DecodeDone(h)

SpecRoute == Init /\ [][NextRoute]_vars

\* One live session receiving chunks and interrupted signals; the output clock
\* keeps running, pending decodes settle and 'ended' events are delivered.
NextDrain ==
  \/ Authenticate
  \/ ToggleVoiceOn(1)
  \/ MicGranted(1)
  \/ ChannelOpen(1)
  \/ \E m \in {Chunk, Interrupted} : OnMessage(1, m, DrainMsgs)
  \/ \E h \in handlers : DecodeDone(h)
  \/ ClockRuns(DrainTime)
  \/ \E i \in DOMAIN sources : Ended(i)

SpecDrain ==
  /\ Init
  /\ [][NextDrain]_vars
  /\ WF_vars(ClockRuns(DrainTime))
  /\ WF_vars(\E h \in handlers : DecodeDone(h))
  /\ WF_vars(\E i \in DOMAIN sources : Ended(i))

\* One live session receiving chunks while the output device may be lost.
NextDevice ==
  \/ Authenticate
  \/ ToggleVoiceOn(1)
  \/ MicGranted(1)
  \/ ChannelOpen(1)
  \/ \E m \in {Chunk, Fragment} : OnMessage(1, m, DeviceMsgs)
  \/ \E h \in handlers : DecodeDone(h)
  \/ \E h \in handlers : DecodeFails(h)

SpecDevice == Init /\ [][NextDevice]_vars

\* The inactivity monitor: authentication, activity events, time, lockdown.
NextIdle ==
  \/ Authenticate
  \/ Activity(IdleTimers)
  \/ AppTick(IdleTime)
  \/ Lockdown

SpecIdle == Init /\ [][NextIdle]_vars

\* A voice session capturing frames while the inactivity monitor runs; a click
\* on the voice toggle comes with its mousedown event.
NextLock ==
  \/ Authenticate
  \/ AppTick(LockTime)
  \/ Lockdown
  \/ Activity(LockTimers)
  \/ (app.lastEvent = app.clock /\ ToggleVoiceOn(1))
  \/ (app.lastEvent = app.clock /\ ToggleVoiceOff(FALSE, FALSE, {}))
  \/ MicGranted(1)
  \/ ChannelOpen(1)
  \/ ConnectResolved(1)
  \/ CaptureFrame(1, LockFrames)

SpecLock == Init /\ [][NextLock]_vars

\* Text submissions with their streams, voice turns and history purges.
NextChat ==
  \/ Authenticate
  \/ (epoch < ChatSubmits /\ HandleSubmitInput(ChatSubmits))
  \/ StreamChunk
  \/ StreamEnds
  \/ StreamFails
  \/ (app.authenticated /\ VoiceTurn(ChatVoiceLen))
  \/ PurgeHistory

SpecChat == Init /\ [][NextChat]_vars

\* set_volume and draw_detection tool calls next to voice turns.
NextVolume ==
  \/ Authenticate
  \/ \E level \in Levels : SetVolumeTool(level, VolumeCalls)
  \/ \E label \in Labels : DrawDetectionTool(label)
  \/ (app.authenticated /\ VoiceTurn(VolumeVoiceLen))

SpecVolume == Init /\ [][NextVolume]_vars

\* The boot sequence with clicks and key presses; timers and intervals fire.
NextBoot ==
  \/ TypeTick
  \/ \E p \in {"INIT", "DIAGNOSTICS", "NEURAL_SYNC", "CALIBRATION"} : PhaseTimer(p)
  \/ \E inc \in ProgressSteps : SyncTick(inc)
  \/ ExitFires
  \/ CompleteFires
  \/ Click(BootInputs)
  \/ \E key \in Keys : KeyDown(key, BootInputs)
  \/ SkipFires
  \/ Unmount

SpecBoot ==
  /\ Init
  /\ [][NextBoot]_vars
  /\ WF_vars(TypeTick)
  /\ WF_vars(\E p \in {"INIT", "DIAGNOSTICS", "NEURAL_SYNC", "CALIBRATION"} : PhaseTimer(p))
  /\ WF_vars(\E inc \in ProgressSteps : SyncTick(inc))
  /\ WF_vars(ExitFires)
  /\ WF_vars(CompleteFires)
  /\ WF_vars(SkipFires)

\* One session capturing frames around the resolution of the connect promise.
NextCapture ==
  \/ Authenticate
  \/ ToggleVoiceOn(1)
  \/ ToggleVoiceOff(FALSE, FALSE, {})
  \/ MicGranted(1)
  \/ ChannelOpen(1)
  \/ ChannelClose(1, {1000})
  \/ ConnectResolved(1)
  \/ CaptureFrame(1, CaptureFrames)

SpecCapture == Init /\ [][NextCapture]_vars

\* ---------------------------------------------------------------- claims
\* Sources i < j were scheduled with no stopAudio() between them.
SameRun(i, j) == sources[i].epoch = sources[j].epoch

RECURSIVE PlayedBefore(_, _)
\* Sum of duration / rate over the sources of k's run started before source k,
\* counting down from source i.
PlayedBefore(k, i) ==
  IF i = 0 THEN 0
  ELSE PlayedBefore(k, i - 1)
       + (IF SameRun(i, k) THEN sources[i].dur \div sources[i].rate ELSE 0)

\* C1: for chunks scheduled with no interrupt or stop in between, the k-th
\* chunk starts playing no earlier than the sum of the earlier chunks'
\* durations over the rate, and no two playback intervals
\* [start, start + duration/rate) overlap, whatever the arrival timing and the
\* interleaving at the decode await.
C1_GaplessNoOverlap ==
  \A k \in DOMAIN sources :
    /\ PlayStart(sources[k]) >= PlayedBefore(k, k - 1)
    /\ \A i \in 1..(k - 1) :
         SameRun(i, k) => PlayStart(sources[k]) >= PlayEnd(sources[i])

\* C2: a chunk is started at max(clockPosition, now), now being the output
\* clock when the chunk is started, and the clock position then becomes that
\* start time plus duration / rate.
C2_StartAtMaxOfClockAndNow ==
  \A k \in DOMAIN sources :
    /\ sources[k].when = Max(sources[k].clock, sources[k].startedAt)
    /\ sources[k].clockAfter = sources[k].when + (sources[k].dur \div sources[k].rate)

\* C5 (as stated): stopAudio() leaves the active-playback set empty and the
\* clock position equal to the output clock's current time.
C5_InterruptResetsClockToNow ==
  [][epoch' # epoch => (activeSources' = {} /\ nextStartTime' = now')]_vars

\* C5 (amended): stopAudio() leaves the active-playback set empty and the clock
\* position at 0, however many chunks were active.
C5_InterruptClearsSetAndZeroesClock ==
  [][epoch' # epoch => (activeSources' = {} /\ nextStartTime' = 0)]_vars

\* C5 witness: stopAudio() has stopped two active chunks while the output
\* clock was past 0.
C5_Witness ==
  /\ epoch > 0
  /\ now > 0
  /\ Cardinality({i \in DOMAIN sources : sources[i].state = "stopped"}) >= 2
  /\ activeSources = {}
  /\ nextStartTime = 0


\* Responses sent so far that carry request r's id.
ResponsesTo(r) == {k \in DOMAIN responses : responses[k].id = r.id}

\* The onmessage invocation that received request r has run to its end.
Dispatched(r) == \A h \in handlers : h.mid # r.mid

\* C3: every function call received produces exactly one tool response on the
\* channel, carrying the id and name of the request, also for each call of a
\* message with several calls and when callbacks.onToolCall throws. Stated for
\* requests whose dispatch has ended on a channel that is still open.
C3_EveryRequestAnsweredOnce ==
  \A i \in DOMAIN requests :
    LET r == requests[i]
    IN (Dispatched(r) /\ sess[r.sid].chan = "open") =>
         /\ Cardinality(ResponsesTo(r)) = 1
         /\ \A k \in ResponsesTo(r) : responses[k].name = r.name

\* C4: each turn completion reports, per direction, exactly the fragments
\* received since the previous completion, in arrival order, and once every
\* received message has been handled the buffers hold exactly the fragments
\* received since the last completion (none after a completion).
C4_TurnCompleteReportsFragments ==
  /\ \A k \in DOMAIN turnLog : turnLog[k] = expectedTurns[k]
  /\ handlers = {} =>
       \A s \in DOMAIN sess :
         /\ sess[s].curIn = sess[s].recvIn
         /\ sess[s].curOut = sess[s].recvOut

\* C6: once stop() has been called the microphone tracks are stopped, the
\* capture context is closed, no source of the session is left playing in the
\* active set by the stop, the channel is closed, no capture frame is sent and
\* no inbound message is processed any more.
C6_StopReleasesEverything ==
  \A s \in DOMAIN sess :
    sess[s].stopCalls > 0 =>
      /\ sess[s].mic = "stopped"
      /\ sess[s].inputCtx = "closed"
      /\ sess[s].chan = "closed"
      /\ ~sess[s].sendAfterStop
      /\ ~sess[s].msgAfterStop

\* C7: after stop() was called with two active playback sources and one tool
\* call in flight, the active-playback set holds no source of that session
\* from then on, and the microphone tracks and the capture context have each
\* been released exactly once.
C7_StoppedSessionStaysSilent ==
  \A s \in DOMAIN sess :
    (sess[s].stopCalls > 0 /\ sess[s].stopActive = 2 /\ sess[s].stopInFlight = 1) =>
      /\ ActiveOf(s) = {}
      /\ sess[s].trackStops = 1
      /\ sess[s].ctxCloses = 1

\* C8: once the remote side has closed the channel of a session that had become
\* active, and every received message has been handled, the microphone tracks
\* are stopped, the capture context is closed and no source of the session is
\* active, though the user requested no stop.
C8_RemoteCloseReleases ==
  \A s \in DOMAIN sess :
    (sess[s].wired /\ sess[s].closedByRemote /\ handlers = {}) =>
      /\ sess[s].mic = "stopped"
      /\ sess[s].inputCtx = "closed"
      /\ ActiveOf(s) = {}

\* C9: a call of stop() attempts every release step whatever fails: the capture
\* context's close is called, stop is called on every active source, the set
\* is cleared and the channel is closed.
C9_StopIsBestEffort ==
  [][\A s \in DOMAIN sess :
       sess'[s].stopCalls > sess[s].stopCalls =>
         /\ sess'[s].ctxCloses > sess[s].ctxCloses
         /\ \A i \in activeSources : sources'[i].stopTried
         /\ activeSources' = {}
         /\ sess'[s].chan = "closed"]_vars

\* onError calls made for session s.
ErrorsOf(s) == {k \in DOMAIN onErrors : onErrors[k].sid = s}

\* C10: when getUserMedia fails, onError is called exactly once, with
\* MIC_ACCESS_DENIED, connectLive returns null, no channel connection is
\* opened, the App does not store the session and voiceActive is false after
\* the failure has been handled.
C10_MicDeniedGoesToError ==
  /\ [](\A s \in DOMAIN sess :
          sess[s].mic = "denied" =>
            /\ Cardinality(ErrorsOf(s)) = 1
            /\ \A k \in ErrorsOf(s) : onErrors[k].err = "MIC_ACCESS_DENIED"
            /\ sess[s].returned = "null"
            /\ sess[s].chan = "none"
            /\ liveSessionRef # s)
  /\ [][\A s \in DOMAIN sess :
          (sess[s].mic = "pending" /\ sess'[s].mic = "denied") =>
            (~voiceActive' /\ voiceError' = "MIC_ACCESS_DENIED")]_vars

\* C10 witness: a microphone request has been denied while a later session is
\* already connected.
C10_Witness ==
  \E s, u \in DOMAIN sess :
    /\ sess[s].mic = "denied"
    /\ sess[u].chan = "open"
    /\ ~voiceActive

\* C11: once an error has been reported for a session (microphone denied,
\* channel error, channel closure), and every received message has been
\* handled, the capture context created at the start of connectLive is closed,
\* the microphone stream is not live and no playback source of the session is
\* active.
C11_ErrorPathsRelease ==
  \A s \in DOMAIN sess :
    (ErrorsOf(s) # {} /\ handlers = {}) =>
      /\ sess[s].inputCtx = "closed"
      /\ sess[s].mic # "live"
      /\ ActiveOf(s) = {}

\* Sources created for session s so far.
SourcesOf(s) == {i \in DOMAIN sources : sources[i].sid = s}

\* C12: a throwing tool handler does not abort the session: once every
\* received message has been handled, every audio chunk received has been
\* scheduled and every turn completion received has been reported, also for
\* the message whose handler threw, and onError has not been called.
C12_ToolThrowKeepsMessage ==
  \A s \in DOMAIN sess :
    (handlers = {} /\ sess[s].chan = "open") =>
      /\ Cardinality(SourcesOf(s)) = sess[s].recvParts
      /\ Len(turnLog) = Len(expectedTurns)
      /\ ErrorsOf(s) = {}

\* C13: requests in flight are dispatched independently: no request received
\* is left with its handler not yet invoked while the handler of another
\* request is still running.
C13_IndependentDispatch ==
  \A i \in DOMAIN requests :
    \A h \in handlers :
      (h.pc = "tool" /\ h.mid = requests[i].mid) => requests[i].id <= h.base + h.idx

\* C14: inbound messages take effect in the order received: an onmessage
\* invocation resumes from its await (to send a tool response, to start a
\* decoded chunk, to append transcripts, to report the turn or to interrupt)
\* only when no invocation of an earlier message is still suspended.
C14_MessagesHandledInOrder ==
  [][\A h \in handlers :
       h \notin handlers' => \A g \in handlers : g.mid >= h.mid]_vars

\* C15: the capture frames put on the channel are in capture order, each at
\* most once, also those captured while sessionPromise was pending, and once
\* the promise has resolved every captured frame whose own send did not fail
\* has been sent: a failed send holds back no other frame.
C15_FramesSentInCaptureOrder ==
  \A s \in DOMAIN sess :
    /\ \A i, j \in DOMAIN sess[s].sent : i < j => sess[s].sent[i] < sess[s].sent[j]
    /\ sess[s].promise = "resolved" =>
         {sess[s].sent[i] : i \in DOMAIN sess[s].sent} = (1..sess[s].frames) \ sess[s].failed

\* C15 witness: frames 1 and 2 were captured while the promise was pending,
\* the send of frame 2 failed, and frames 1 and 3 are on the channel.
C15_Witness ==
  \E s \in DOMAIN sess :
    /\ sess[s].frames = 3
    /\ sess[s].deferred = {1, 2}
    /\ sess[s].failed = {2}
    /\ sess[s].sent = <<1, 3>>

\* C16: a session on which stop() was called before the channel handshake
\* completed never becomes an open channel and never gets its capture wiring
\* installed: it stays connecting until it is closed or fails.
C16_StopBeforeOpenStaysClosed ==
  [][\A s \in DOMAIN sess :
       (sess[s].stopCalls > 0 /\ sess[s].chan = "connecting") =>
         /\ sess'[s].chan \in {"connecting", "closed", "error"}
         /\ ~sess'[s].wired]_vars

\* C17: at most one session has an open channel, and whenever a later session
\* exists every earlier one has its microphone tracks stopped (or never got
\* them), its capture context closed and its channel closed (or never opened).
C17_OneLiveSession ==
  /\ Cardinality({s \in DOMAIN sess : sess[s].chan = "open"}) <= 1
  /\ \A s, u \in DOMAIN sess :
       s < u =>
         /\ sess[s].mic \in {"stopped", "denied"}
         /\ sess[s].inputCtx = "closed"
         /\ sess[s].chan \in {"closed", "none"}

\* C18: once an error has been reported for a session, no further source of
\* that session is started, no further capture frame of it is sent and no
\* further onError is reported for it.
C18_ErrorIsAbsorbing ==
  [][\A s \in DOMAIN sess :
       ErrorsOf(s) # {} =>
         /\ SourcesOf(s)' = SourcesOf(s)
         /\ sess'[s].sent = sess[s].sent
         /\ ErrorsOf(s)' = ErrorsOf(s)]_vars

\* C19: every channel error and every channel closure makes exactly one
\* onError call, for the session of the channel, whose message is the event's
\* message (UPLINK_PROTOCOL_ERROR when it has none) for an error and
\* SESSION_CLOSED_ followed by the event's close code (1006 when it has none)
\* for a closure; with that call the App leaves the voice-active state and
\* voiceError holds the message.
C19_ChannelFaultsReported ==
  [][\A s \in DOMAIN sess :
       LET failed == sess[s].chan # "error" /\ sess'[s].chan = "error"
           closed == sess[s].chan # "closed" /\ sess'[s].chan = "closed"
           last == onErrors'[Len(onErrors')]
       IN (failed \/ closed) =>
            /\ Len(onErrors') = Len(onErrors) + 1
            /\ last.sid = s
            /\ failed => last.err = (IF sess'[s].errMsg = "" THEN "UPLINK_PROTOCOL_ERROR"
                                     ELSE sess'[s].errMsg)
            /\ closed => last.err = "SESSION_CLOSED_" \o
                                      ToString(IF sess'[s].closeCode = 0 THEN 1006
                                               ELSE sess'[s].closeCode)
            /\ ~voiceActive'
            /\ voiceError' = last.err]_vars

\* C19 witness: the first session failed with a message and was then closed
\* without a code, the second was closed with code 1011 while voice was
\* active for it; every event was reported and the last message is recorded.
C19_Witness ==
  /\ Len(sess) = 2
  /\ sess[1].errMsg = "socket hang up"
  /\ sess[1].chan = "closed"
  /\ sess[1].closeCode = 0
  /\ sess[2].chan = "closed"
  /\ sess[2].closeCode = 1011
  /\ Len(onErrors) = 3
  /\ ~voiceActive
  /\ voiceError = "SESSION_CLOSED_1011"

RECURSIVE ConnectAttempts(_)
\* ai.live.connect calls made for the first n connectLive calls.
ConnectAttempts(n) == IF n = 0 THEN 0 ELSE ConnectAttempts(n - 1) + sess[n].connects

\* C20: the number of ai.live.connect calls never exceeds the number of
\* connectLive calls made by toggleVoice, whatever microphone denials, channel
\* errors and closures occur.
C20_NoRetry == ConnectAttempts(Len(sess)) <= Len(sess)

\* C20 witness: of two start requests one was denied the microphone and the
\* other connected, failed and was closed; one connection attempt was made.
C20_Witness ==
  \E s, u \in DOMAIN sess :
    /\ sess[s].mic = "denied"
    /\ sess[u].chan = "closed"
    /\ Cardinality(ErrorsOf(u)) = 2
    /\ ConnectAttempts(Len(sess)) = 1

\* C21: a chunk started after a rate change plays at the rate in force when it
\* is started and advances the clock by its duration over that rate, and no
\* step changes the rate, the start time or the clock contribution of a chunk
\* started earlier.
C21_RateAppliesToLaterChunks ==
  [][/\ \A i \in DOMAIN sources :
          /\ sources'[i].rate = sources[i].rate
          /\ sources'[i].when = sources[i].when
          /\ sources'[i].clockAfter = sources[i].clockAfter
     /\ \A i \in (DOMAIN sources') \ (DOMAIN sources) :
          /\ sources'[i].rate = currentAudioSettings.speed
          /\ nextStartTime' =
               nextStartTime + (sources'[i].dur \div currentAudioSettings.speed)]_vars

\* C21 witness: a 2-tick chunk started at rate 1 advanced the clock by 2; after
\* the rate was set to 2 a second 2-tick chunk advanced it by 1, the first
\* keeping its rate.
C21_Witness ==
  /\ Len(sources) = 2
  /\ sources[1].rate = 1
  /\ sources[1].clockAfter - sources[1].clock = 2
  /\ sources[2].rate = 2
  /\ sources[2].dur = 2
  /\ sources[2].clockAfter - sources[2].clock = 1
  /\ nextStartTime = sources[2].clockAfter

\* C22: every stopAudio() call leaves the active set empty and the clock at 0
\* and changes no setting; called with an empty active set it changes no
\* source, and called on the state a previous call left (empty set, clock 0)
\* it changes nothing at all in the scheduler.
C22_StopAudioIdempotent ==
  [][epoch' # epoch =>
       /\ activeSources' = {}
       /\ nextStartTime' = 0
       /\ currentAudioSettings' = currentAudioSettings
       /\ audioContext' = audioContext
       /\ activeSources = {} => sources' = sources
       /\ (activeSources = {} /\ nextStartTime = 0) =>
            <<sources, activeSources, nextStartTime>>' =
              <<sources, activeSources, nextStartTime>>]_vars

\* C22 witness: the only chunk ever started was stopped by a first stopAudio()
\* and a second stopAudio() followed with nothing scheduled in between.
C22_Witness ==
  /\ epoch = 2
  /\ Len(sources) = 1
  /\ sources[1].epoch = 0
  /\ sources[1].state = "stopped"
  /\ handlers = {}
  /\ activeSources = {}
  /\ nextStartTime = 0

\* C23: handling a message that carries only the interrupted signal empties
\* the active set and resets the clock and changes nothing else: the channel,
\* the microphone stream, the capture context and wiring, the transcript
\* buffers, the audio settings and the App's voice state stay as they were and
\* no error or turn is reported.
C23_InterruptedOnlyInterrupts ==
  [][(msgCount' # msgCount /\ epoch' # epoch) =>
       /\ activeSources' = {}
       /\ nextStartTime' = 0
       /\ \A s \in DOMAIN sess :
            /\ sess'[s].chan = sess[s].chan
            /\ sess'[s].mic = sess[s].mic
            /\ sess'[s].inputCtx = sess[s].inputCtx
            /\ sess'[s].wired = sess[s].wired
            /\ sess'[s].curIn = sess[s].curIn
            /\ sess'[s].curOut = sess[s].curOut
       /\ currentAudioSettings' = currentAudioSettings
       /\ <<voiceActive, voiceError, liveSessionRef>>' =
            <<voiceActive, voiceError, liveSessionRef>>
       /\ onErrors' = onErrors
       /\ turnLog' = turnLog]_vars

\* C23 witness: an interrupted signal stopped a playing chunk of a session
\* holding a transcript fragment; the session is still connected and wired.
C23_Witness ==
  /\ epoch = 1
  /\ msgCount = 3
  /\ \E i \in DOMAIN sources : sources[i].state = "stopped"
  /\ sess[1].curOut = <<"a">>
  /\ sess[1].chan = "open"
  /\ sess[1].mic = "live"
  /\ sess[1].wired
  /\ voiceActive

\* Components that have handled message mid of session s.
RoutedTo(s, mid) == {c \in {"dispatcher", "scheduler", "aggregator"} :
                       <<mid, c>> \in sess[s].routes}

\* The onmessage invocation of message mid has run to its end.
Handled(mid) == \A h \in handlers : h.mid # mid

C25_ClockMonotoneWhilePlaying ==
  [][epoch' = epoch => nextStartTime' >= nextStartTime]_vars

\* C25 witness: within one run two chunks were started at different rates with
\* the volume changed, the clock standing past the end of both.
C25_Witness ==
  /\ Len(sources) = 2
  /\ SameRun(1, 2)
  /\ sources[1].rate # sources[2].rate
  /\ currentAudioSettings.volume = 30
  /\ now > 0
  /\ nextStartTime = sources[2].clockAfter
  /\ nextStartTime > sources[1].clockAfter

\* C26: the active set holds exactly the sources that were started and have
\* neither ended nor been stopped; every source is in the set in the step that
\* starts it; and the set is eventually empty for good once no further chunk
\* arrives.
C26_ActiveSetTracksPlayback ==
  /\ [](activeSources = {i \in DOMAIN sources : sources[i].state = "playing"})
  /\ [][\A i \in (DOMAIN sources') \ (DOMAIN sources) : i \in activeSources']_vars
  /\ <>[](activeSources = {})

\* C26 witness: two chunks were started, both played to their end and the set
\* is empty.
C26_Witness ==
  /\ Len(sources) = 2
  /\ \A i \in DOMAIN sources : sources[i].state = "ended"
  /\ activeSources = {}
  /\ handlers = {}

\* C27: no audio chunk is dropped silently: once every received message has
\* been handled, either every chunk received by a session has been scheduled
\* or an error has been reported to the caller for that session.
C27_LostDeviceIsReported ==
  \A s \in DOMAIN sess :
    handlers = {} =>
      \/ Cardinality(SourcesOf(s)) = sess[s].recvParts
      \/ ErrorsOf(s) # {}

\* C28: the boot phase only ever stays or moves to the next phase of the order
\* INIT, DIAGNOSTICS, NEURAL_SYNC, CALIBRATION, READY, and when no skip is ever
\* issued the sequence reaches READY and onComplete is called.
C28_PhasesInOrder ==
  /\ [][PhaseRank(boot'.phase) - PhaseRank(boot.phase) \in {0, 1}]_vars
  /\ ([](~boot.skipRef)) => <>(boot.phase = "READY" /\ boot.completions > 0)

\* C28 witness: without any skip the sequence has gone through the phases to
\* READY and called onComplete.
C28_Witness ==
  /\ boot.phase = "READY"
  /\ ~boot.skipRef
  /\ boot.progress = 100
  /\ boot.completions = 1

\* C29: once a click or a key press has happened during the boot sequence, the
\* skip has been issued (and leads to onComplete).
C29_AnyInputSkips ==
  (boot.inputs > 0) => boot.skipRef

\* C30: a chunk is never started and added to the active set when an
\* interrupted signal received after the chunk's message has already been
\* handled in the same session.
C30_NoStartAfterInterrupt ==
  [][\A h \in handlers :
       (h.pc = "decode" /\ h \notin handlers' /\ Len(sources') > Len(sources)) =>
         ~\E k \in DOMAIN sess[h.sid].inbox :
            LET e == sess[h.sid].inbox[k]
            IN e.interrupted /\ e.mid > h.mid /\ Handled(e.mid)]_vars

\* C33: onComplete is never called more than once in a run of the boot
\* sequence, whatever the phase in which a skip is issued.
C33_OnCompleteOnce ==
  boot.completions <= 1

\* C31: whenever voiceActive is false and no connectLive call is pending, no
\* session holds the microphone and liveSessionRef is empty.
C31_InactiveMeansReleased ==
  (~voiceActive /\ \A s \in DOMAIN sess : sess[s].returned # "pending") =>
    /\ liveSessionRef = 0
    /\ \A s \in DOMAIN sess : sess[s].mic # "live"

\* C32: whenever the output gain node exists, its target gain is the volume of
\* the current audio settings.
C32_GainFollowsVolume ==
  audioContext => gain = currentAudioSettings.volume

\* C35: a lockdown happens only when no activity event occurred during the
\* IDLE_TIMEOUT before it; every activity event while authenticated leaves
\* exactly one pending timer, a new one due IDLE_TIMEOUT later; at most one
\* inactivity timer is pending at any time and none while not authenticated.
C35_LockdownOnlyWhenIdle ==
  /\ [][(app.authenticated /\ ~app'.authenticated) =>
          (app.lastEvent < 0 \/ app.clock - app.lastEvent >= IDLE_TIMEOUT)]_vars
  /\ [][(app.authenticated /\ app'.lastEvent # app.lastEvent) =>
          /\ app'.pending = {[id |-> app.nextId, due |-> app.clock + IDLE_TIMEOUT]}
          /\ \A tm \in app.pending : tm.id # app.nextId]_vars
  /\ [](Cardinality(app.pending) <= 1)
  /\ [](~app.authenticated => app.pending = {})

\* C35 witness: after activity events at different times the lockdown fired,
\* and the App was authenticated again with one timer pending.
C35_Witness ==
  /\ app.lockdowns = 1
  /\ app.lastEvent = 2
  /\ app.authenticated
  /\ Cardinality(app.pending) = 1

\* C34: whenever authenticated is false, no session started earlier holds a
\* live microphone.
C34_LockdownStopsCapture ==
  ~app.authenticated => \A s \in DOMAIN sess : sess[s].mic # "live"

\* C36: the chat message list in memory holds at most 10 messages, and so does
\* the history in local storage.
C36_AtMostTenMessages ==
  /\ Len(app.messages) <= 10
  /\ Len(app.stored) <= 10

\* C37: after a set_volume call with level L the stored volume is L limited to
\* 0..100 percent (so it lies in [0, 1]), the returned text gives that volume
\* as a whole percentage, and the call leaves the playback speed, the chat
\* messages and the detections as they were.
C37_SetVolumeClamps ==
  /\ [](app.audioSettings.volume \in 0..1000)
  /\ [](app.toolCalls > 0 =>
          /\ app.audioSettings.volume =
               (IF app.level < 0 THEN 0 ELSE IF app.level > 1000 THEN 1000 ELSE app.level)
          /\ \E pct \in 0..100 :
               /\ app.reply = "Volume set to " \o ToString(pct) \o "%."
               /\ 10 * pct - app.audioSettings.volume \in -5..5)
  /\ [][app'.toolCalls # app.toolCalls =>
          /\ app'.audioSettings.speed = app.audioSettings.speed
          /\ app'.messages = app.messages
          /\ app'.detections = app.detections
          /\ currentAudioSettings' = currentAudioSettings]_vars

\* C37 witness: a level above 100 percent was set after a fractional one, with
\* chat messages and a detection present.
C37_Witness ==
  /\ app.toolCalls = 2
  /\ app.level = 1500
  /\ app.audioSettings.volume = 1000
  /\ app.reply = "Volume set to 100%."
  /\ app.messages # << >>
  /\ app.detections = {"cup"}

====
